---- MODULE Spec2Model ----
(***************************************************************************)
(* A model of the sensor-log pipeline of src/logging_task/do_it_yourself.py *)
(* (and of its older copy src/logging/do_it_yourself.py): parse_log_line,   *)
(* process_error and process_file.                                          *)
(*                                                                          *)
(* A Python str that the code looks into is a sequence of one-character     *)
(* strings (<<"D","D">> is "DD"); the error messages, which the code only   *)
(* passes around, are TLA+ strings.  A Python dict is a function whose      *)
(* DOMAIN is its key set.                                                   *)
(***************************************************************************)
EXTENDS Integers, Sequences, FiniteSets, TLC

VARIABLES
    impl,              \* which copy runs: "logging_task" or "logging"
    pc,                \* process_file: "start", "reading", "done", "none", or
                       \* the exception let out
    consumed,          \* the lines the for loop has read so far, in order
    success_messages,  \* dict sensor_id -> count
    failed_sensors,    \* dict sensor_id -> error message
    result,            \* what process_file returned
    d_pc, d_sp1, d_sp2, d_task, d_logging,   \* one call of process_error
    p_pc, p_line, p_entry                    \* one call of parse_log_line

vars == <<impl, pc, consumed, success_messages, failed_sensors, result,
          d_pc, d_sp1, d_sp2, d_task, d_logging, p_pc, p_line, p_entry>>

aggVars == <<impl, pc, consumed, success_messages, failed_sensors, result>>
decVars == <<d_pc, d_sp1, d_sp2, d_task, d_logging>>
parVars == <<p_pc, p_line, p_entry>>

(***************************************************************************)
(* Python str methods, on sequences of characters.                         *)
(***************************************************************************)

\* The characters of the strings are those of Latin-1 (U+0000 to U+00FF) and
\* the Unicode whitespace. A character the syntax of a string cannot hold is
\* written by its escape: "\\u2000" stands for the one character U+2000.

\* The control characters str.strip() removes besides the tab, the newline,
\* the form feed and the carriage return: U+000B, U+001C to U+001F, U+0085
ControlSpaces == {"", "", "", "", "", ""}

\* The separators among the whitespace: U+00A0, U+1680, U+2000 to U+200A,
\* U+2028, U+2029, U+202F, U+205F, U+3000
SpaceSeparators ==
    {" ", " ",
     "\\u2000", "\\u2001", "\\u2002", "\\u2003", "\\u2004", "\\u2005",
     "\\u2006", "\\u2007", "\\u2008", "\\u2009", "\\u200a",
     "\\u2028", "\\u2029", "\\u202f", "\\u205f", "\\u3000"}

\* The characters str.strip() removes: those str.isspace() is true of
Whitespace == {" ", "\t", "\n", "\r", "\f"} \cup ControlSpaces \cup SpaceSeparators

\* The characters int() skips around the number: the whitespace without
\* U+001C to U+001F
IntWhitespace == Whitespace \ {"", "", "", ""}

DigitChars == <<"0", "1", "2", "3", "4", "5", "6", "7", "8", "9">>

LowerChars == <<"a", "b", "c", "d", "e", "f", "g", "h", "i", "j", "k", "l", "m",
                "n", "o", "p", "q", "r", "s", "t", "u", "v", "w", "x", "y", "z",
                "à", "á", "â", "ã", "ä", "å", "æ", "ç", "è", "é", "ê", "ë", "ì",
                "í", "î", "ï", "ð", "ñ", "ò", "ó", "ô", "õ", "ö", "ø", "ù", "ú",
                "û", "ü", "ý", "þ">>

UpperChars == <<"A", "B", "C", "D", "E", "F", "G", "H", "I", "J", "K", "L", "M",
                "N", "O", "P", "Q", "R", "S", "T", "U", "V", "W", "X", "Y", "Z",
                "À", "Á", "Â", "Ã", "Ä", "Å", "Æ", "Ç", "È", "É", "Ê", "Ë", "Ì",
                "Í", "Î", "Ï", "Ð", "Ñ", "Ò", "Ó", "Ô", "Õ", "Ö", "Ø", "Ù", "Ú",
                "Û", "Ü", "Ý", "Þ">>

IsDigit(c) == \E i \in 1..10 : DigitChars[i] = c

DigitVal(c) == (CHOOSE i \in 1..10 : DigitChars[i] = c) - 1

\* s[a:b] with 0 <= a, b (Python's half-open slice, clipped to the string).
Slice(s, a, b) == SubSeq(s, a + 1, IF b < Len(s) THEN b ELSE Len(s))

RECURSIVE lstrip(_, _)
\* s.lstrip(chars)
lstrip(s, chars) ==
    IF s # <<>> /\ Head(s) \in chars THEN lstrip(Tail(s), chars) ELSE s

RECURSIVE rstrip(_, _)
\* s.rstrip(chars)
rstrip(s, chars) ==
    IF s # <<>> /\ s[Len(s)] \in chars
    THEN rstrip(SubSeq(s, 1, Len(s) - 1), chars)
    ELSE s

\* s.strip(chars); s.strip() is strip(s, Whitespace)
strip(s, chars) == rstrip(lstrip(s, chars), chars)

\* s.find(sub) + 1: the 1-based position of the first occurrence, 0 if none
find(s, sub) ==
    LET hits == {i \in 1..(Len(s) - Len(sub) + 1) :
                    SubSeq(s, i, i + Len(sub) - 1) = sub}
    IN IF hits = {} THEN 0 ELSE CHOOSE i \in hits : \A j \in hits : i <= j

RECURSIVE split(_, _)
\* s.split(sep) for a one-character sep
split(s, sep) ==
    LET i == find(s, <<sep>>)
    IN IF i = 0 THEN <<s>>
       ELSE <<SubSeq(s, 1, i - 1)>> \o split(SubSeq(s, i + 1, Len(s)), sep)

\* c.upper() for one character, as a string: U+00DF becomes two characters,
\* U+00B5 becomes U+039C and U+00FF becomes U+0178
upper_char(c) ==
    IF c = "ß" THEN <<"S", "S">>
    ELSE IF c = "µ" THEN <<"Μ">>
    ELSE IF c = "ÿ" THEN <<"\\u0178">>
    ELSE IF \E i \in 1..Len(LowerChars) : LowerChars[i] = c
    THEN <<UpperChars[CHOOSE i \in 1..Len(LowerChars) : LowerChars[i] = c]>>
    ELSE <<c>>

RECURSIVE upper(_)
\* s.upper()
upper(s) == IF s = <<>> THEN <<>> ELSE upper_char(Head(s)) \o upper(Tail(s))

RECURSIVE zeros(_)
zeros(n) == IF n <= 0 THEN <<>> ELSE <<"0">> \o zeros(n - 1)

\* s.zfill(width): the zeros go after a leading sign
zfill(s, width) ==
    IF Len(s) >= width THEN s
    ELSE IF s # <<>> /\ Head(s) \in {"+", "-"}
         THEN <<Head(s)>> \o zeros(width - Len(s)) \o Tail(s)
         ELSE zeros(width - Len(s)) \o s

RECURSIVE digits_value(_, _)
digits_value(s, acc) ==
    IF s = <<>> THEN acc ELSE digits_value(Tail(s), 10 * acc + DigitVal(Head(s)))

\* The digits int() accepts after the sign: decimal digits, with single
\* underscores between two of them
digits_ok(u) ==
    /\ u # <<>>
    /\ \A i \in 1..Len(u) :
           \/ IsDigit(u[i])
           \/ /\ u[i] = "_"
              /\ 1 < i /\ i < Len(u)
              /\ IsDigit(u[i - 1]) /\ IsDigit(u[i + 1])

\* Whether int(s) raises ValueError: after the surrounding whitespace and one
\* optional sign there must be the digits of a number
int_raises(s) ==
    LET t == strip(s, IntWhitespace)
        u == IF t # <<>> /\ Head(t) \in {"+", "-"} THEN Tail(t) ELSE t
    IN ~digits_ok(u)

\* int(s), where it does not raise
int(s) ==
    LET t == strip(s, IntWhitespace)
        neg == t # <<>> /\ Head(t) = "-"
        u == IF t # <<>> /\ Head(t) \in {"+", "-"} THEN Tail(t) ELSE t
        v == digits_value(SelectSeq(u, IsDigit), 0)
    IN IF neg THEN 0 - v ELSE v

RECURSIVE bin(_)
\* the binary digits of n >= 0, most significant first ("0" for 0)
bin(n) ==
    IF n < 2 THEN <<DigitChars[n + 1]>>
    ELSE bin(n \div 2) \o <<DigitChars[(n % 2) + 1]>>

\* format(v, "08b"): sign first, then zeros up to a total width of 8
format08b(v) ==
    IF v < 0
    THEN <<"-">> \o zeros(7 - Len(bin(0 - v))) \o bin(0 - v)
    ELSE zeros(8 - Len(bin(v))) \o bin(v)

(***************************************************************************)
(* process_error: the fault decoder, in its two copies.                    *)
(***************************************************************************)

Battery == "Battery device error"
Temperature == "Temperature device error"
Threshold == "Threshold central error"
Unknown == "Unknown device error"

\* The outcome of a call that ends in an uncaught ValueError (int() of a pair
\* that is no number) instead of returning a message.
ValueError == "ValueError"

error_types == <<Battery, Temperature, Threshold>>

\* A variant of flag: the character at index 3 looked at
flag_at_index_3(pair) == format08b(int(pair))[4] = "1"

\* format(int(pair), "08b")[4] == "1", for a pair int() accepts
flag(pair) == format08b(int(pair))[5] = "1"

\* combined[i * 2 : i * 2 + 2], i in 0..2
pair_of(combined, i) == Slice(combined, i * 2, i * 2 + 2)

\* src/logging_task: (sp1[:-1] + sp2.lstrip("-")).zfill(6)[:6]
combined_task(sp1, sp2) ==
    Slice(zfill(Slice(sp1, 0, Len(sp1) - 1) \o lstrip(sp2, {"-"}), 6), 0, 6)

RECURSIVE pad_loop(_)
\* src/logging: while len(combined) < 6: combined = "0" + combined
pad_loop(combined) ==
    IF Len(combined) < 6 THEN pad_loop(<<"0">> \o combined) ELSE combined

\* src/logging: the concatenation, padded by the loop or cut to 6
combined_logging(sp1, sp2) ==
    LET combined == Slice(sp1, 0, Len(sp1) - 1) \o lstrip(sp2, {"-"})
    IN IF Len(combined) < 6 THEN pad_loop(combined)
       ELSE IF Len(combined) > 6 THEN Slice(combined, 0, 6)
       ELSE combined

\* A variant of scan_pairs: the pairs looked at from the last to the first
scan_pairs_last_first(combined, i) ==
    IF \E k \in 0..2 : int_raises(pair_of(combined, k)) THEN ValueError
    ELSE IF flag(pair_of(combined, 2)) THEN Threshold
    ELSE IF flag(pair_of(combined, 1)) THEN Temperature
    ELSE IF flag(pair_of(combined, 0)) THEN Battery
    ELSE Unknown

RECURSIVE scan_pairs(_, _)
\* src/logging_task: for i in range(3), returning at the first set flag; a pair
\* behind the returning one is never given to int()
scan_pairs(combined, i) ==
    IF i = 3 THEN Unknown
    ELSE IF int_raises(pair_of(combined, i)) THEN ValueError
    ELSE IF flag(pair_of(combined, i)) THEN error_types[i + 1]
    ELSE scan_pairs(combined, i + 1)

\* A variant of process_error: no check for an empty argument
process_error_no_empty_check(sp1, sp2) == scan_pairs(combined_task(sp1, sp2), 0)

\* process_error of src/logging_task
process_error(sp1, sp2) ==
    IF sp1 = <<>> \/ sp2 = <<>> THEN Unknown
    ELSE scan_pairs(combined_task(sp1, sp2), 0)

\* process_error of src/logging: all three pairs go through int() first
process_error_logging(sp1, sp2) ==
    IF sp1 = <<>> \/ sp2 = <<>> THEN Unknown
    ELSE LET combined == combined_logging(sp1, sp2)
             pair1 == Slice(combined, 0, 2)
             pair2 == Slice(combined, 2, 4)
             pair3 == Slice(combined, 4, 6)
         IN IF int_raises(pair1) \/ int_raises(pair2) \/ int_raises(pair3)
            THEN ValueError
            ELSE IF flag(pair1) THEN Battery
            ELSE IF flag(pair2) THEN Temperature
            ELSE IF flag(pair3) THEN Threshold
            ELSE Unknown

(***************************************************************************)
(* parse_log_line                                                          *)
(***************************************************************************)

\* The return value None, and the dictionary of an accepted line.
None == [tag |-> "None"]

Entry(sensor_id, sp1, sp2, state) ==
    [tag |-> "entry", sensor_id |-> sensor_id, sp1 |-> sp1, sp2 |-> sp2,
     state |-> state]

\* The delimiter "> " and the handler tag "BIG"
Marker == <<">", " ">>
BIG == <<"B", "I", "G">>

\* line.split("> ", 1)[1].strip().strip("'"), for a line that holds "> "
message_part(line) ==
    strip(strip(SubSeq(line, find(line, Marker) + Len(Marker), Len(line)),
                Whitespace),
          {"'"})

\* A variant of too_few: one field less is enough
too_few_below_17(parts) == Len(parts) < 17

\* len(parts) < 18
too_few(parts) == Len(parts) < 18

\* parts[0].strip() != "BIG"
wrong_handler(parts) == strip(parts[1], Whitespace) # BIG

\* A variant of extract: the state read at the fixed position 16
extract_state_at_16(parts) ==
    Entry(upper(strip(parts[3], Whitespace)),
          strip(parts[7], Whitespace),
          strip(parts[16], Whitespace),
          strip(parts[17], Whitespace))

\* The dictionary built from parts[2], parts[6], parts[15] and parts[-2]
extract(parts) ==
    Entry(upper(strip(parts[3], Whitespace)),
          strip(parts[7], Whitespace),
          strip(parts[16], Whitespace),
          strip(parts[Len(parts) - 1], Whitespace))

\* parse_log_line, the same in both copies.  No step of the try block can
\* raise on a str (the indices 2, 6, 15 and -2 exist once len(parts) >= 18),
\* so the except clause is never entered.
parse_log_line(line) ==
    IF find(line, Marker) = 0 THEN None
    ELSE LET parts == split(message_part(line), ";")
         IN IF too_few(parts) THEN None
            ELSE IF wrong_handler(parts) THEN None
            ELSE extract(parts)

\* A variant of is_failed: the state compared without regard to case
is_failed_any_case(entry) == upper(entry.state) = <<"D", "D">>

\* is_ok and is_failed
is_ok(entry) == entry.state = <<"0", "2">>

is_failed(entry) == entry.state = <<"D", "D">>

(***************************************************************************)
(* process_file: the fold over the lines of the log.                       *)
(***************************************************************************)

EmptyDict == [k \in {} |-> 0]

\* Nothing returned yet, and the return value None
NoResult == <<>>
ReturnedNone == <<"None">>

\* d[k] = v
Put(d, k, v) == [x \in DOMAIN d \cup {k} |-> IF x = k THEN v ELSE d[x]]

\* The call of process_error of the copy that runs
error_msg_of(copy, entry) ==
    IF copy = "logging_task"
    THEN process_error(entry.sp1, entry.sp2)
    ELSE process_error_logging(entry.sp1, entry.sp2)

\* A variant of not_yet_failed: the guard forgotten, every "DD" record decoded
\* and stored
not_yet_failed_always(failed, sensor_id) == TRUE

\* if sensor_id not in failed_sensors: the guard of the call of process_error
\* and of the store
not_yet_failed(failed, sensor_id) == sensor_id \notin DOMAIN failed

\* failed_sensors[sensor_id] = error_msg
store_failed(failed, sensor_id, error_msg) == Put(failed, sensor_id, error_msg)

\* A variant of count_ok: a new counter starts at 0
count_ok_from_zero(success, failed, sensor_id) ==
    IF sensor_id \in DOMAIN failed THEN success
    ELSE IF sensor_id \in DOMAIN success
         THEN [success EXCEPT ![sensor_id] = @ + 1]
         ELSE Put(success, sensor_id, 0)

\* A variant of count_ok: the "02" records of a failed sensor counted as well
count_ok_ignores_failed(success, failed, sensor_id) ==
    IF sensor_id \in DOMAIN success
    THEN [success EXCEPT ![sensor_id] = @ + 1]
    ELSE Put(success, sensor_id, 1)

\* A variant of count_ok: no "02" record counted once any sensor has failed
count_ok_unless_any_failed(success, failed, sensor_id) ==
    IF DOMAIN failed # {} THEN success
    ELSE IF sensor_id \in DOMAIN success
         THEN [success EXCEPT ![sensor_id] = @ + 1]
         ELSE Put(success, sensor_id, 1)

\* The is_ok branch: nothing for a sensor that already failed, else += 1 or = 1
count_ok(success, failed, sensor_id) ==
    IF sensor_id \in DOMAIN failed THEN success
    ELSE IF sensor_id \in DOMAIN success
         THEN [success EXCEPT ![sensor_id] = @ + 1]
         ELSE Put(success, sensor_id, 1)

\* A variant of cleanup: nothing deleted
cleanup_skipped(success, failed) == success

\* for sensor in list(failed_sensors.keys()): del success_messages[sensor]
cleanup(success, failed) ==
    [k \in DOMAIN success \ DOMAIN failed |-> success[k]]

\* A variant of summary: the two counts in each other's place
summary_counts_swapped(success, failed) ==
    <<Cardinality(DOMAIN success) + Cardinality(DOMAIN failed),
      Cardinality(DOMAIN failed), Cardinality(DOMAIN success), failed, success>>

\* The returned tuple, from the dictionaries after the cleanup
summary(success, failed) ==
    <<Cardinality(DOMAIN success) + Cardinality(DOMAIN failed),
      Cardinality(DOMAIN success), Cardinality(DOMAIN failed), failed, success>>

(***************************************************************************)
(* Inputs: the lines and the status fields the specifications draw from.   *)
(***************************************************************************)

\* Bounds of the model
MaxLines == 4          \* lines read from one file
MaxSp1Len == 5         \* length of S_P_1 in a call of process_error
MaxSp2Len == 3         \* length of S_P_2 in a call of process_error
MaxQuotes == 3         \* quote characters on either side of a message
MaxExtraFields == 1    \* fields beyond the 18 a message needs

\* All strings over chars of length at most n
Strings(chars, n) == UNION {[1..k -> chars] : k \in 0..n}

Quotes(n) == [i \in 1..n |-> "'"]

RECURSIVE join(_, _)
\* sep.join(fields), fields not empty
join(fields, sep) ==
    IF Len(fields) = 1 THEN fields[1]
    ELSE fields[1] \o <<sep>> \o join(Tail(fields), sep)

\* n fields: handler, sensor id, S_P_1 and S_P_2 at the positions 0, 2, 6 and
\* 15, the state second to last, "x" elsewhere
MkFields(n, handler, sensor, sp1, sp2, state) ==
    [i \in 1..n |-> IF i = 1 THEN handler
                    ELSE IF i = 3 THEN sensor
                    ELSE IF i = 7 THEN sp1
                    ELSE IF i = n - 1 THEN state
                    ELSE IF i = 16 THEN sp2
                    ELSE <<"x">>]

\* A line: what precedes the message, the message in q quotes, the line end
MkLine(pre, q, fields, eol) ==
    pre \o Quotes(q) \o join(fields, ";") \o Quotes(q) \o eol

\* A well-formed line of the log, as the device writes it
LogLine(sensor, sp1, sp2, state) ==
    MkLine(<<"t", " ">> \o Marker, 1, MkFields(18, BIG, sensor, sp1, sp2, state),
           <<"\n">>)

OK02 == <<"0", "2">>
DD == <<"D", "D">>

\* The lines a file is made of: two devices (one written in two cases), the
\* states "02", "DD" and others, status fields that decode to different
\* messages or to no number, a device with an empty id, a line with no marker.
FileLines ==
    { LogLine(<<"a", "b">>, <<"1", "2">>, <<"0", "3">>, OK02),
      LogLine(<<"A", "b">>, <<"1", "2">>, <<"0", "3">>, OK02),
      LogLine(<<"a", "b">>, <<"0", "8", "0", "0", "1">>, <<"0", "0">>, DD),
      LogLine(<<"A", "B">>, <<"9", "9">>, <<"-", "5", "0">>, DD),
      LogLine(<<"a", "b">>, <<"z", "z", "1">>, <<"0">>, DD),
      LogLine(<<"a", "b">>, <<"0", "8", "0", "0", "1">>, <<"0", "z">>, DD),
      LogLine(<<"a", "b">>, <<"1", "2">>, <<"0", "3">>, <<"d", "d">>),
      LogLine(<<"c", "d">>, <<"1", "2">>, <<"0", "3">>, OK02),
      LogLine(<<"c", "d">>, <<>>, <<"8">>, DD),
      LogLine(<<"c", "d">>, <<"1", "2">>, <<"0", "3">>, <<"0", "3">>),
      LogLine(<<>>, <<"1", "2">>, <<"0", "3">>, OK02),
      <<"B", "I", "G", ";", "\n">> }

\* parse_log_line on the lines of the file, evaluated once
parsed == [line \in FileLines |-> parse_log_line(line)]

\* The arguments of a call of process_error
ExtraSp ==
    { <<"z">>, <<"9", "9">>, <<"-", "5", "0">>, <<"+", "8">>, <<" ", "8">>,
      <<"1", "2">>, <<"0", "z", "8">>, <<"+", "8", "0", "0">>,
      <<"", "8">>, <<"8", "">>, <<"8", " ", "8">> }

\* Arguments that put every two-digit pair into the working string: a digit
\* and a checksum character as S_P_1, a digit as S_P_2
DigitSp1 == {<<DigitChars[i], "0">> : i \in 1..10}
DigitSp2 == {<<DigitChars[i]>> : i \in 1..10}

Sp1Inputs == Strings({"0", "8", "-", "+"}, MaxSp1Len) \cup ExtraSp \cup DigitSp1
Sp2Inputs == Strings({"0", "8", "-", "+"}, MaxSp2Len) \cup ExtraSp \cup DigitSp2

\* The lines given to one call of parse_log_line
ParseLines ==
    { MkLine(pre, q, MkFields(n, handler, sensor, sp1, <<"0", "3">>, state), eol) :
        pre \in { <<>>, <<"t", " ">> \o Marker, Marker \o <<"x">> \o Marker },
        q \in 0..MaxQuotes,
        n \in 17..(18 + MaxExtraFields),
        handler \in { BIG, <<" ">> \o BIG \o <<" ">>, <<"b", "i", "g">>,
                      <<"">> \o BIG \o <<"", "\\u2028">> },
        sensor \in { <<"a", "b">>, <<" ", "a", "B", "1", " ">>, <<>>, <<" ">>,
                     <<"", "ß", "é", "ÿ", " ">> },
        sp1 \in { <<"1", "2">>, <<" ", "9", "9", "\t">> },
        state \in { OK02, <<"D", "D", " ">>, <<"d", "d">> },
        eol \in { <<>>, <<"\n">> } }

(***************************************************************************)
(* process_file as a function of the lines of the file: the loop and the   *)
(* return, as the actions ReadLine and Finish below take them step by step.*)
(***************************************************************************)

\* The body of "for line in f" on the dictionaries st.success and st.failed;
\* st.pc becomes "ValueError" when process_error raises, and the loop is over
loop_body(copy, st, line) ==
    LET entry == parsed[line]
    IN IF st.pc # "reading" \/ entry = None THEN st
       ELSE IF is_failed(entry)
       THEN IF ~not_yet_failed(st.failed, entry.sensor_id) THEN st
            ELSE IF error_msg_of(copy, entry) = ValueError
                 THEN [st EXCEPT !.pc = "ValueError"]
                 ELSE [st EXCEPT !.failed =
                          store_failed(st.failed, entry.sensor_id,
                                       error_msg_of(copy, entry))]
       ELSE IF is_ok(entry)
       THEN [st EXCEPT !.success = count_ok(st.success, st.failed, entry.sensor_id)]
       ELSE st

RECURSIVE run_loop(_, _, _)
\* The loop over the lines, from the dictionaries st
run_loop(copy, st, lines) ==
    IF lines = <<>> THEN st
    ELSE run_loop(copy, loop_body(copy, st, Head(lines)), Tail(lines))

\* What process_file ends with on a file of these lines: the returned tuple,
\* or the ValueError
outcome(copy, lines) ==
    LET st == run_loop(copy, [pc |-> "reading", success |-> EmptyDict,
                              failed |-> EmptyDict], lines)
    IN IF st.pc = "ValueError" THEN [pc |-> "ValueError", result |-> NoResult]
       ELSE [pc |-> "done",
             result |-> summary(cleanup(st.success, st.failed), st.failed)]

(***************************************************************************)
(* Spec: process_file reading a file line by line.                         *)
(***************************************************************************)

Init ==
    /\ impl \in {"logging_task", "logging"}
    /\ pc = "start"
    /\ consumed = <<>>
    /\ success_messages = EmptyDict
    /\ failed_sensors = EmptyDict
    /\ result = NoResult
    /\ d_pc = "idle" /\ d_sp1 = <<>> /\ d_sp2 = <<>>
    /\ d_task = Unknown /\ d_logging = Unknown
    /\ p_pc = "idle" /\ p_line = <<>> /\ p_entry = None

\* The file is there and opens: the loop starts
Open ==
    /\ pc = "start"
    /\ pc' = "reading"
    /\ UNCHANGED <<impl, consumed, success_messages, failed_sensors, result>>
    /\ UNCHANGED <<decVars, parVars>>

\* The file is not there: src/logging_task returns None before opening it,
\* src/logging lets open() raise
FileMissing ==
    /\ pc = "start"
    /\ IF impl = "logging_task"
       THEN pc' = "none" /\ result' = ReturnedNone
       ELSE pc' = "OSError" /\ UNCHANGED result
    /\ UNCHANGED <<impl, consumed, success_messages, failed_sensors>>
    /\ UNCHANGED <<decVars, parVars>>

\* Reading fails with an OSError: src/logging_task catches it and returns
\* None, src/logging lets it out
ReadFails ==
    /\ pc = "reading"
    /\ IF impl = "logging_task"
       THEN pc' = "none" /\ result' = ReturnedNone
       ELSE pc' = "OSError" /\ UNCHANGED result
    /\ UNCHANGED <<impl, consumed, success_messages, failed_sensors>>
    /\ UNCHANGED <<decVars, parVars>>

\* The path holds a NUL character: os.path.exists() answers False and
\* src/logging_task returns None; in src/logging open() raises a ValueError,
\* which is let out
PathHasNul ==
    /\ pc = "start"
    /\ IF impl = "logging_task"
       THEN pc' = "none" /\ result' = ReturnedNone
       ELSE pc' = "PathValueError" /\ UNCHANGED result
    /\ UNCHANGED <<impl, consumed, success_messages, failed_sensors>>
    /\ UNCHANGED <<decVars, parVars>>

\* "for line in f" meets bytes that are not text in the encoding of the
\* file: it raises UnicodeDecodeError, a ValueError and no OSError, which
\* neither copy catches
DecodeFails ==
    /\ pc = "reading"
    /\ pc' = "UnicodeDecodeError"
    /\ UNCHANGED <<impl, consumed, success_messages, failed_sensors, result>>
    /\ UNCHANGED <<decVars, parVars>>

\* One iteration of "for line in f"
ReadLine(line) ==
    /\ pc = "reading"
    /\ Len(consumed) < MaxLines
    /\ consumed' = Append(consumed, line)
    /\ LET entry == parsed[line]
       IN IF entry = None
          THEN UNCHANGED <<pc, success_messages, failed_sensors>>
          ELSE IF is_failed(entry)
          THEN IF ~not_yet_failed(failed_sensors, entry.sensor_id)
               THEN UNCHANGED <<pc, success_messages, failed_sensors>>
               ELSE IF error_msg_of(impl, entry) = ValueError
                    THEN /\ pc' = "ValueError"
                         /\ UNCHANGED <<success_messages, failed_sensors>>
                    ELSE /\ failed_sensors' =
                                store_failed(failed_sensors, entry.sensor_id,
                                             error_msg_of(impl, entry))
                         /\ UNCHANGED <<pc, success_messages>>
          ELSE IF is_ok(entry)
          THEN /\ success_messages' =
                      count_ok(success_messages, failed_sensors, entry.sensor_id)
               /\ UNCHANGED <<pc, failed_sensors>>
          ELSE UNCHANGED <<pc, success_messages, failed_sensors>>
    /\ UNCHANGED <<impl, result>>
    /\ UNCHANGED <<decVars, parVars>>

\* The end of the file: the cleanup of the healthy map and the return
Finish ==
    /\ pc = "reading"
    /\ pc' = "done"
    /\ success_messages' = cleanup(success_messages, failed_sensors)
    /\ result' = summary(cleanup(success_messages, failed_sensors), failed_sensors)
    /\ UNCHANGED <<impl, consumed, failed_sensors>>
    /\ UNCHANGED <<decVars, parVars>>

Next ==
    \/ Open
    \/ FileMissing
    \/ ReadFails
    \/ PathHasNul
    \/ DecodeFails
    \/ \E line \in FileLines : ReadLine(line)
    \/ Finish

Spec == Init /\ [][Next]_vars

(***************************************************************************)
(* SpecDecode: one call of process_error, in both copies.                  *)
(***************************************************************************)

InitDecode ==
    /\ d_pc = "call"
    /\ d_sp1 \in Sp1Inputs
    /\ d_sp2 \in Sp2Inputs
    /\ d_task = Unknown /\ d_logging = Unknown
    /\ impl = "logging_task" /\ pc = "start" /\ consumed = <<>>
    /\ success_messages = EmptyDict /\ failed_sensors = EmptyDict
    /\ result = NoResult
    /\ p_pc = "idle" /\ p_line = <<>> /\ p_entry = None

Decode ==
    /\ d_pc = "call"
    /\ d_pc' = "returned"
    /\ d_task' = process_error(d_sp1, d_sp2)
    /\ d_logging' = process_error_logging(d_sp1, d_sp2)
    /\ UNCHANGED <<d_sp1, d_sp2>>
    /\ UNCHANGED <<aggVars, parVars>>

NextDecode == Decode

SpecDecode == InitDecode /\ [][NextDecode]_vars

(***************************************************************************)
(* SpecParse: one call of parse_log_line.                                  *)
(***************************************************************************)

InitParse ==
    /\ p_pc = "call"
    /\ p_line \in ParseLines
    /\ p_entry = None
    /\ impl = "logging_task" /\ pc = "start" /\ consumed = <<>>
    /\ success_messages = EmptyDict /\ failed_sensors = EmptyDict
    /\ result = NoResult
    /\ d_pc = "idle" /\ d_sp1 = <<>> /\ d_sp2 = <<>>
    /\ d_task = Unknown /\ d_logging = Unknown

Parse ==
    /\ p_pc = "call"
    /\ p_pc' = "returned"
    /\ p_entry' = parse_log_line(p_line)
    /\ UNCHANGED p_line
    /\ UNCHANGED <<aggVars, decVars>>

NextParse == Parse

SpecParse == InitParse /\ [][NextParse]_vars

(***************************************************************************)
(* Properties of process_file (Spec).                                      *)
(***************************************************************************)

\* The accepted records of the stream read so far, by position
Accepted == {i \in 1..Len(consumed) : parsed[consumed[i]] # None}

RecordAt(i) == parsed[consumed[i]]

\* The positions of the accepted records of sensor s with the given state
RecordsOf(s, state) ==
    {i \in Accepted : RecordAt(i).sensor_id = s /\ RecordAt(i).state = state}

\* Every sensor id a line of the file can carry
AllSensors == {parsed[line].sensor_id : line \in {l \in FileLines : parsed[l] # None}}

\* The sensors with at least one "DD" record in the stream read so far
DDSensors == {s \in AllSensors : RecordsOf(s, DD) # {}}

FirstDD(s) == CHOOSE i \in RecordsOf(s, DD) : \A j \in RecordsOf(s, DD) : i <= j

\* The Summary has been returned
Returned == pc = "done"

\* C1: in the returned Summary the keys of the faulty map are exactly the
\* sensors with a "DD" record somewhere in the stream, and none of them is a
\* key of the healthy map, wherever their "02" records stand.
C1_FaultyAreTheDDSensors ==
    Returned =>
        /\ DOMAIN result[4] = DDSensors
        /\ DOMAIN result[5] \cap DDSensors = {}

\* A Summary of a stream where a sensor has "02" records on both sides of a "DD"
C1_Witness ==
    /\ Returned
    /\ \E s \in DDSensors : \E i, k \in RecordsOf(s, OK02) :
           i < FirstDD(s) /\ FirstDD(s) < k

\* C2: in every state of the fold the reason stored for a sensor is the one
\* decoded from its first "DD" record, whatever was read after it, the entry is
\* still there, and the Summary returns it unchanged.
C2_ReasonOfFirstDD ==
    /\ \A s \in DOMAIN failed_sensors :
           /\ s \in DDSensors
           /\ failed_sensors[s] = error_msg_of(impl, RecordAt(FirstDD(s)))
    /\ pc # "ValueError" => DOMAIN failed_sensors = DDSensors
    /\ Returned => result[4] = failed_sensors

\* A Summary of a stream where a sensor has a second "DD" record that decodes
\* to another message, and a "02" record after it
C2_Witness ==
    /\ Returned
    /\ \E s \in DDSensors : \E j \in RecordsOf(s, DD) : \E k \in RecordsOf(s, OK02) :
           /\ FirstDD(s) < j /\ j < k
           /\ error_msg_of(impl, RecordAt(j)) # error_msg_of(impl, RecordAt(FirstDD(s)))
           /\ error_msg_of(impl, RecordAt(j)) # ValueError

\* C3: the counts of the returned Summary are the sizes of its two maps, the
\* total is their sum, and the maps share no key.
C3_CountsAgree ==
    Returned =>
        /\ result[1] = result[2] + result[3]
        /\ result[2] = Cardinality(DOMAIN result[5])
        /\ result[3] = Cardinality(DOMAIN result[4])
        /\ DOMAIN result[4] \cap DOMAIN result[5] = {}

\* A Summary with more faulty than healthy sensors, one of the faulty ones
\* counted as healthy before its "DD" record
C3_Witness ==
    /\ Returned
    /\ result[3] = 2 /\ result[2] = 1
    /\ \E s \in DDSensors : \E i \in RecordsOf(s, OK02) : i < FirstDD(s)

\* C4: no record makes the fold fail: process_file never ends in an uncaught
\* ValueError.
C4_NeverFails == pc # "ValueError"

\* The number of "02" records of sensor s read so far
OkCount(s) == Cardinality(RecordsOf(s, OK02))

\* The record the step has just read, if it read one
JustRead == parsed[consumed'[Len(consumed')]]

\* C10: for a sensor with no "DD" record the healthy map holds the number of
\* its "02" records (no entry for 0), in every state of the fold and in the
\* Summary; and a "02" record of a sensor with no faulty entry adds 1 to that
\* sensor's counter and changes nothing else.
C10_HealthyCounts ==
    /\ [](\A s \in AllSensors \ DDSensors :
              /\ s \in DOMAIN success_messages <=> OkCount(s) > 0
              /\ s \in DOMAIN success_messages => success_messages[s] = OkCount(s)
              /\ Returned => result[5] = success_messages)
    /\ [][(/\ Len(consumed') = Len(consumed) + 1
           /\ JustRead # None
           /\ JustRead.state = OK02
           /\ JustRead.sensor_id \notin DOMAIN failed_sensors)
          => (/\ DOMAIN success_messages' = DOMAIN success_messages \cup {JustRead.sensor_id}
              /\ success_messages'[JustRead.sensor_id] =
                    (IF JustRead.sensor_id \in DOMAIN success_messages
                     THEN success_messages[JustRead.sensor_id] ELSE 0) + 1
              /\ \A s \in DOMAIN success_messages \ {JustRead.sensor_id} :
                     success_messages'[s] = success_messages[s]
              /\ failed_sensors' = failed_sensors
              /\ pc' = pc /\ result' = result)]_vars

\* A Summary where a sensor written in two cases has three "02" records and no
\* "DD" record, next to a faulty sensor
C10_Witness ==
    /\ Returned
    /\ DDSensors # {}
    /\ \E s \in AllSensors \ DDSensors :
           /\ OkCount(s) = 3
           /\ \E i, j \in RecordsOf(s, OK02) : consumed[i] # consumed[j]

(***************************************************************************)
(* Properties of process_error (SpecDecode).                               *)
(***************************************************************************)

Decoded == d_pc = "returned"

NumericPairs(combined) == \A i \in 0..2 : ~int_raises(pair_of(combined, i))

\* The message of the first pair whose flag is set, for numeric pairs
FirstFlag(combined) ==
    IF flag(pair_of(combined, 0)) THEN Battery
    ELSE IF flag(pair_of(combined, 1)) THEN Temperature
    ELSE IF flag(pair_of(combined, 2)) THEN Threshold
    ELSE Unknown

\* C5: for non-empty arguments whose three pairs are numbers, each copy
\* returns the message of the first pair whose flag is set (Battery before
\* Temperature before Threshold), Unknown when none is; and in src/logging_task
\* a set flag of a numeric pair 1 gives Battery whatever follows.
C5_FirstFlagWins ==
    (Decoded /\ d_sp1 # <<>> /\ d_sp2 # <<>>) =>
        /\ NumericPairs(combined_task(d_sp1, d_sp2))
               => d_task = FirstFlag(combined_task(d_sp1, d_sp2))
        /\ NumericPairs(combined_logging(d_sp1, d_sp2))
               => d_logging = FirstFlag(combined_logging(d_sp1, d_sp2))
        /\ (/\ ~int_raises(pair_of(combined_task(d_sp1, d_sp2), 0))
            /\ flag(pair_of(combined_task(d_sp1, d_sp2), 0))) => d_task = Battery

\* A call where all three flags are set and Battery is returned
C5_Witness ==
    /\ Decoded /\ d_sp1 # <<>> /\ d_sp2 # <<>>
    /\ NumericPairs(combined_task(d_sp1, d_sp2))
    /\ \A i \in 0..2 : flag(pair_of(combined_task(d_sp1, d_sp2), i))
    /\ d_task = Battery /\ d_logging = Battery

\* C6: with an empty S_P_1 or an empty S_P_2 both copies return Unknown,
\* whatever the other argument is.
C6_EmptyIsUnknown ==
    (Decoded /\ (d_sp1 = <<>> \/ d_sp2 = <<>>)) =>
        d_task = Unknown /\ d_logging = Unknown

\* A call with an empty S_P_1 and an S_P_2 that is no number, and one with an
\* empty S_P_2: each would not end in Unknown if the pairs were looked at
C6_Witness ==
    /\ Decoded
    /\ d_task = Unknown /\ d_logging = Unknown
    /\ \/ d_sp1 = <<>> /\ d_sp2 = <<"z">>
       \/ d_sp2 = <<>> /\ d_sp1 = <<"8", "8", "0">>

(***************************************************************************)
(* Properties of parse_log_line (SpecParse).                               *)
(***************************************************************************)

Parsed == p_pc = "returned"

\* The line holds "> "
HasMarker(line) == \E i \in 1..(Len(line) - 1) : line[i] = ">" /\ line[i + 1] = " "

\* The text after the first "> " of a line that holds one
AfterMarker(line) ==
    LET first == CHOOSE i \in 1..(Len(line) - 1) :
                     /\ line[i] = ">" /\ line[i + 1] = " "
                     /\ \A j \in 1..(i - 1) : ~(line[j] = ">" /\ line[j + 1] = " ")
    IN SubSeq(line, first + 2, Len(line))

\* The positions of the semicolons of a text, and the number of its fields
Semicolons(text) == {i \in 1..Len(text) : text[i] = ";"}

NumFields(text) == Cardinality(Semicolons(text)) + 1

\* Field k (from 0) of a text, cut at its semicolons
FieldOf(text, k) ==
    LET start == IF k = 0 THEN 0
                 ELSE CHOOSE i \in Semicolons(text) :
                          Cardinality({j \in Semicolons(text) : j < i}) = k - 1
        stop == IF k = NumFields(text) - 1 THEN Len(text) + 1
                ELSE CHOOSE i \in Semicolons(text) :
                         Cardinality({j \in Semicolons(text) : j < i}) = k
    IN SubSeq(text, start + 1, stop - 1)

\* The handler field: field 0 without the whitespace and the quotes that open
\* the message, trimmed
HandlerOf(text) ==
    strip(lstrip(lstrip(FieldOf(text, 0), Whitespace), {"'"}), Whitespace)

\* The line passes the three checks of the parser
WellFormed(line) ==
    /\ HasMarker(line)
    /\ NumFields(AfterMarker(line)) >= 18
    /\ HandlerOf(AfterMarker(line)) = BIG

\* C7: parse_log_line returns None or a record, and None for every line with
\* no marker, with fewer than 18 fields after the first marker, or with a
\* handler other than "BIG".
C7_RejectsMalformed ==
    Parsed =>
        /\ p_entry = None \/ p_entry.tag = "entry"
        /\ ~WellFormed(p_line) => p_entry = None

\* A rejected line with a marker, the handler "BIG" and 17 fields
C7_Witness ==
    /\ Parsed /\ p_entry = None
    /\ HasMarker(p_line)
    /\ NumFields(AfterMarker(p_line)) = 17
    /\ HandlerOf(AfterMarker(p_line)) = BIG

\* C8: for a line that passes the three checks parse_log_line returns the
\* record of field 2 trimmed and upper-cased, field 6 trimmed, field 15
\* trimmed and the second-to-last field trimmed.
C8_ExtractsFields ==
    (Parsed /\ WellFormed(p_line)) =>
        LET text == AfterMarker(p_line)
        IN p_entry = Entry(upper(strip(FieldOf(text, 2), Whitespace)),
                           strip(FieldOf(text, 6), Whitespace),
                           strip(FieldOf(text, 15), Whitespace),
                           strip(FieldOf(text, NumFields(text) - 2), Whitespace))

\* An accepted line of 19 fields in quotes, its sensor id in mixed case and
\* padded, its state not the field 16
C8_Witness ==
    /\ Parsed /\ p_entry # None
    /\ NumFields(AfterMarker(p_line)) = 19
    /\ p_entry.sensor_id = <<"A", "B", "1">>
    /\ p_entry.sp1 = <<"9", "9">>
    /\ p_entry.state = DD
    /\ FieldOf(AfterMarker(p_line), 16) # FieldOf(AfterMarker(p_line), 17)
    /\ p_line[Len(p_line)] = "\n"
    /\ p_line[Len(p_line) - 1] = "'"

\* C9: every record parse_log_line returns has a non-empty sensor id in upper
\* case.
C9_SensorIdNotEmpty ==
    (Parsed /\ p_entry # None) =>
        /\ p_entry.sensor_id # <<>>
        /\ p_entry.sensor_id = upper(p_entry.sensor_id)

(***************************************************************************)
(* Further properties of process_file (Spec).                              *)
(***************************************************************************)

\* The step reads one more line
ReadsALine == Len(consumed') = Len(consumed) + 1

\* C11: a step that reads a record whose state is neither "DD" nor "02"
\* (compared exactly) leaves both maps as they were, creates no entry, and
\* changes nothing else of the fold.
C11_OtherStatesIgnored ==
    [][(/\ ReadsALine
        /\ JustRead # None
        /\ JustRead.state \notin {DD, OK02})
       => (/\ success_messages' = success_messages
           /\ failed_sensors' = failed_sensors
           /\ pc' = pc /\ result' = result)]_vars

\* The fold has just read a record with the state "dd", both maps hold entries
C11_Witness ==
    /\ pc = "reading"
    /\ consumed # <<>>
    /\ parsed[consumed[Len(consumed)]] # None
    /\ parsed[consumed[Len(consumed)]].state = <<"d", "d">>
    /\ DOMAIN success_messages # {} /\ DOMAIN failed_sensors # {}
    /\ parsed[consumed[Len(consumed)]].sensor_id \notin DOMAIN failed_sensors

\* The sensor whose record a line is ("no record" for a rejected line)
SensorOfLine(line) ==
    IF parsed[line] = None THEN <<"no record">> ELSE parsed[line].sensor_id

RECURSIVE BySensor(_, _)
\* The records of a stream regrouped sensor by sensor, the records of one
\* sensor in the order they have in the stream: the one stream that all
\* interleavings of the same per-sensor subsequences regroup to
BySensor(sensors, stream) ==
    IF sensors = {} THEN <<>>
    ELSE LET s == CHOOSE x \in sensors : TRUE
         IN SelectSeq(stream, LAMBDA line : SensorOfLine(line) = s)
                \o BySensor(sensors \ {s}, stream)

\* C12: process_file ends on a stream as it ends on the stream regrouped
\* sensor by sensor: with the same Summary, or with the same ValueError.  Two
\* interleavings of the same per-sensor subsequences regroup to the same
\* stream, so they end alike.
C12_OrderAcrossSensors ==
    /\ Returned =>
           outcome(impl, BySensor(AllSensors, consumed)) =
               [pc |-> "done", result |-> result]
    /\ pc = "ValueError" =>
           outcome(impl, BySensor(AllSensors, consumed)).pc = "ValueError"

\* A Summary with a faulty and a healthy sensor whose records are interleaved:
\* a record of one sensor stands between two records of the other
C12_Witness ==
    /\ Returned
    /\ result[2] > 0 /\ result[3] > 0
    /\ \E i, j, k \in Accepted :
           /\ i < j /\ j < k
           /\ RecordAt(i).sensor_id = RecordAt(k).sensor_id
           /\ RecordAt(i).sensor_id # RecordAt(j).sensor_id
           /\ RecordAt(i).state = OK02 /\ RecordAt(j).state = DD
           /\ RecordAt(k).state = OK02

\* The sensors with at least one accepted record in the stream, of any state
SeenSensors == {RecordAt(i).sensor_id : i \in Accepted}

\* C13: all_devices of the returned tuple is the number of distinct sensors
\* with an accepted (BIG) record, whatever the states of their records.
C13_AllDevicesCountsEverySensor ==
    Returned => result[1] = Cardinality(SeenSensors)

\* C14: the keys of the returned healthy map are exactly the sensors that have
\* an accepted record and whose accepted records all have the state "02".
C14_HealthyAlwaysSent02 ==
    Returned =>
        DOMAIN result[5] =
            {s \in SeenSensors :
                \A i \in Accepted :
                    RecordAt(i).sensor_id = s => RecordAt(i).state = OK02}

\* C16, as stated: after every record no sensor has both a faulty and a
\* healthy entry.
C16_ExclusiveInEveryState ==
    DOMAIN success_messages \cap DOMAIN failed_sensors = {}

\* The "02" records of sensor s that stand before its first "DD" record
OkBeforeFirstDD(s) == {i \in RecordsOf(s, OK02) : i < FirstDD(s)}

\* C16, amended: a faulty sensor has a healthy entry only while the loop
\* runs, and only if "02" records of it were counted before its first "DD"
\* record; that entry stays at their number whatever is read afterwards, and
\* the cleanup at the end of the stream removes it, so that in the returned
\* Summary no sensor has both entries.
C16_ExclusiveAfterCleanup ==
    /\ \A s \in DOMAIN failed_sensors :
           /\ s \in DOMAIN success_messages <=>
                  (~Returned /\ OkBeforeFirstDD(s) # {})
           /\ s \in DOMAIN success_messages =>
                  success_messages[s] = Cardinality(OkBeforeFirstDD(s))
    /\ Returned =>
           /\ DOMAIN success_messages \cap DOMAIN failed_sensors = {}
           /\ DOMAIN result[5] \cap DOMAIN result[4] = {}

\* The loop is running, a sensor has both entries, and a "02" record of it
\* was read after its first "DD" record
C16_Witness ==
    /\ pc = "reading"
    /\ \E s \in DOMAIN failed_sensors \cap DOMAIN success_messages :
           \E k \in RecordsOf(s, OK02) : FirstDD(s) < k

(***************************************************************************)
(* Further properties of process_error (SpecDecode).                       *)
(***************************************************************************)

\* C15: for non-empty arguments, a working string with a pair that is no
\* decimal number makes the decoder return Unknown, in both copies.
C15_MalformedIsUnknown ==
    (Decoded /\ d_sp1 # <<>> /\ d_sp2 # <<>>) =>
        /\ ~NumericPairs(combined_task(d_sp1, d_sp2)) => d_task = Unknown
        /\ ~NumericPairs(combined_logging(d_sp1, d_sp2)) => d_logging = Unknown

\* S_P_1 without its last character, followed by S_P_2 without its leading "-"
Concatenation(sp1, sp2) == SubSeq(sp1, 1, Len(sp1) - 1) \o lstrip(sp2, {"-"})

\* c with "0" characters in front of it up to 6 characters, or its first 6
LeftPadded(c) ==
    IF Len(c) >= 6 THEN SubSeq(c, 1, 6)
    ELSE [i \in 1..6 |-> IF i <= 6 - Len(c) THEN "0" ELSE c[i - (6 - Len(c))]]

\* C17: for non-empty arguments the working string of each copy is the
\* concatenation with zeros in front of its first character up to 6
\* characters, or its first 6 characters.
C17_ZerosInFront ==
    (Decoded /\ d_sp1 # <<>> /\ d_sp2 # <<>>) =>
        /\ combined_task(d_sp1, d_sp2) = LeftPadded(Concatenation(d_sp1, d_sp2))
        /\ combined_logging(d_sp1, d_sp2) = LeftPadded(Concatenation(d_sp1, d_sp2))

\* A pair of two decimal digits, and its value
TwoDigits(pair) == Len(pair) = 2 /\ IsDigit(pair[1]) /\ IsDigit(pair[2])

PairValue(pair) == 10 * DigitVal(pair[1]) + DigitVal(pair[2])

\* The bit of weight 8 of v is set
Bit8(v) == (v \div 8) % 2 = 1

\* The message of the first pair whose value has the bit of weight 8
FirstBit8(combined) ==
    IF Bit8(PairValue(pair_of(combined, 0))) THEN Battery
    ELSE IF Bit8(PairValue(pair_of(combined, 1))) THEN Temperature
    ELSE IF Bit8(PairValue(pair_of(combined, 2))) THEN Threshold
    ELSE Unknown

\* C18: a pair of two digits has a value below 256 and its flag is the bit of
\* weight 8 of that value, so that a working string of digits decodes to the
\* first pair with that bit; process_error("99", "-50") works on "000950" and
\* returns Temperature.
C18_FlagIsBitOfWeight8 ==
    (Decoded /\ d_sp1 # <<>> /\ d_sp2 # <<>>) =>
        /\ (\A i \in 0..2 : TwoDigits(pair_of(combined_task(d_sp1, d_sp2), i))) =>
               /\ \A i \in 0..2 :
                      LET pair == pair_of(combined_task(d_sp1, d_sp2), i)
                      IN /\ PairValue(pair) < 256
                         /\ int(pair) = PairValue(pair)
                         /\ flag(pair) <=> Bit8(PairValue(pair))
               /\ d_task = FirstBit8(combined_task(d_sp1, d_sp2))
        /\ (\A i \in 0..2 : TwoDigits(pair_of(combined_logging(d_sp1, d_sp2), i))) =>
               d_logging = FirstBit8(combined_logging(d_sp1, d_sp2))
        /\ (d_sp1 = <<"9", "9">> /\ d_sp2 = <<"-", "5", "0">>) =>
               /\ combined_task(d_sp1, d_sp2) = <<"0", "0", "0", "9", "5", "0">>
               /\ d_task = Temperature /\ d_logging = Temperature

\* The call process_error("99", "-50") has returned Temperature
C18_Witness ==
    /\ Decoded
    /\ d_sp1 = <<"9", "9">> /\ d_sp2 = <<"-", "5", "0">>
    /\ d_task = Temperature /\ d_logging = Temperature

\* C20: the two copies of process_error end alike on every pair of
\* arguments: with the same message, or both with a ValueError.
C20_CopiesAgree == Decoded => d_task = d_logging

(***************************************************************************)
(* Further properties of parse_log_line (SpecParse).                       *)
(***************************************************************************)

\* The number of quote characters a text starts with
LeadingQuotes(text) == Len(text) - Len(lstrip(text, {"'"}))

\* C19: one layer of quotes is removed from the text after the first "> ",
\* so that a line whose text starts with two quotes or more keeps a quote in
\* front of its handler field and is rejected.
C19_OneLayerRemoved ==
    (/\ Parsed
     /\ HasMarker(p_line)
     /\ LeadingQuotes(strip(AfterMarker(p_line), Whitespace)) >= 2)
    => p_entry = None

====
